---- MODULE Spec2Model ----
(***************************************************************************)
(* GENESIS video generation pipeline (src/motion-specs/generate_video.py). *)
(*                                                                         *)
(* The model follows one GenesisOrchestrator through run(): loading the    *)
(* prompt chain, filtering, the timeline step, the sequential generation   *)
(* loop (live requests with the retry loop of _call_api, or the simulation *)
(* path), the concatenation step, the report and the release of the        *)
(* transport client.  SpecConcat applies VideoConcatenator.concatenate to   *)
(* arbitrary path lists; SpecPartial, SpecNamed and SpecConfigured are     *)
(* run() over spec directories with missing files, over chains whose       *)
(* entries differ in id, name and duration, and under a Config with a      *)
(* seed and global contexts of different key orders.                       *)
(*                                                                         *)
(* Conventions: a Python str is a sequence of one-character strings; an    *)
(* Optional value is <<>> (None) or <<v>>; times are in tenths of a        *)
(* second.                                                                 *)
(***************************************************************************)
EXTENDS Integers, Sequences, FiniteSets, TLC

VARIABLES
    pc,               \* position of the flow of control inside run() / generate_segment()
    api_key,          \* TRUE iff Config.api_key is a non-empty string
    has_httpx,        \* HAS_HTTPX: the import of httpx succeeded
    seed,             \* Config.seed: None or Some(integer)
    config_segment_duration, \* Config.segment_duration
    client,           \* VideoGenerator.client: "none" | "open" | "closed"
    max_retries,      \* Config.max_retries
    prompt_chain,     \* SpecLoader.prompt_chain["prompts"] as read from prompt_chain.json
    global_context,   \* local global_context of run()
    segment_ids,      \* argument of run(): None or Some(set of ids)
    preview,          \* argument of run()
    concatenate,      \* argument of run()
    segments,         \* local segments of run()
    idx,              \* position of the for loop of run() in segments (1-based)
    results,          \* local results of run()
    successful_paths, \* local successful_paths of run()
    result,           \* value returned by the generate_segment call in progress: None or Some(r)
    attempt,          \* loop variable of _call_api
    plan,             \* the service's behaviour for the current segment: the failures it
                      \* answers with, in order, before it starts answering successfully
    requests,         \* client.post calls issued for the current segment
    sleeps,           \* asyncio.sleep(retry_delay) calls made for the current segment
    timeline_written, \* timeline_visualization.txt was written
    sim_files,        \* metadata files written by _simulate_generation
    manifest,         \* kaizen_portfolio_final.concat.json: None or Some(m)
    ffmpeg_cmd,       \* kaizen_portfolio_final.ffmpeg.sh: None or Some(c)
    report,           \* generation_report.json: None or Some(r)
    returned,         \* what run() returned: "" | "preview" | "report"
    raised_in,        \* the component whose exception left run(): "" while none did
    artifacts,        \* the specification files that exist in spec_dir
    loader,           \* SpecLoader.kinesis_spec and .segment_manifest: "empty" | "loaded"
    in_flight,        \* generate_segment calls begun and not yet returned
    enhanced_prompt,  \* local enhanced_prompt of the generate_segment call in progress
    payload,          \* local payload of the _call_api call in progress: None or Some(p)
    modes             \* the dispatch branches taken by generate_segment so far in this run

vars == <<pc, api_key, client, max_retries, prompt_chain, global_context, segment_ids,
          preview, concatenate, segments, idx, results, successful_paths, result,
          attempt, plan, requests, sleeps, timeline_written, sim_files, manifest,
          ffmpeg_cmd, report, returned, raised_in, artifacts, loader, in_flight,
          has_httpx, seed, config_segment_duration, enhanced_prompt, payload, modes>>

---------------------------------------------------------------------------
(* Bounds of the model *)

\* longest prompt chain explored
MaxSegs == 3
\* longest path list handed to the concatenator in SpecConcat
MaxPaths == 5

\* longest prompt chain of a spec_dir with missing files
MaxPartial == 1
\* Config.seed ranges over None and -MaxSeed..MaxSeed
MaxSeed == 1
\* Config.segment_duration ranges over 8..8+MaxDurationDelta in SpecConcat
MaxDurationDelta == 2

(* Program constants *)

\* Config.max_retries default
DefaultMaxRetries == 3
\* Config.segment_duration (seconds)
segment_duration == 8
\* "transition_duration": 0.2, in tenths of a second
transition_duration == 2
\* the literal offset=7.8 of boundary 0, in tenths of a second
FirstOffset == 78
\* the literal 7.8 multiplied by i for boundary i > 0, in tenths of a second
OffsetStep == 78

---------------------------------------------------------------------------
(* Python values *)

None == <<>>
Some(v) == <<v>>

Digits == {"0", "1", "2", "3", "4", "5", "6", "7", "8", "9"}

DigitChars == <<"0", "1", "2", "3", "4", "5", "6", "7", "8", "9">>

\* f"{i:02d}" for 0 <= i < 100
Fmt02(i) == <<DigitChars[((i \div 10) % 10) + 1], DigitChars[(i % 10) + 1]>>

\* f"{i}" for 0 <= i < 100
DecStr(i) == IF i < 10 THEN <<DigitChars[i + 1]>> ELSE Fmt02(i)

StrVal(s) == [type |-> "str", text |-> s]
IntVal(s) == [type |-> "int", text |-> s]
Absent == [type |-> "absent", text |-> <<>>]

\* the entries a prompt chain is built from: the key "prompt" may hold a string,
\* a JSON number, or be missing; ids may or may not have the S<digit> shape
IdS1 == <<"S", "1">>
IdS2 == <<"S", "2">>
IdIn == <<"i", "n">>
NameA == <<"A", " ", "b">>

\* the keys get_segments reads with prompt_data[...]
RequiredKeys == {"segment_id", "segment_name", "duration_seconds", "prompt"}

\* key_moments entries: a well-formed {time, action} pair, and one without "time"
MomentOk == [keys |-> {"time", "action"}]
MomentNoTime == [keys |-> {"action"}]

\* a prompt-chain entry: keys is the set of required keys the JSON object carries (the
\* value recorded for a key it does not carry is never read)
Entry(id, p) ==
    [keys |-> IF p = Absent THEN RequiredKeys \ {"prompt"} ELSE RequiredKeys,
     segment_id |-> id, segment_name |-> NameA, duration_seconds |-> 8, prompt |-> p,
     key_moments |-> <<MomentOk>>]

\* the entry S1 with the required key k left out
EntryWithout(k) == [Entry(IdS1, StrVal(<<"g", "o">>)) EXCEPT !.keys = RequiredKeys \ {k}]

\* the entry S2 whose only key moment has no "time"
EntryBadMoment == [Entry(IdS2, StrVal(<<"g", "o">>)) EXCEPT !.key_moments = <<MomentNoTime>>]

Entries ==
    { Entry(IdS1, StrVal(<<"g", "o">>)),
      Entry(IdS2, StrVal(<<"g", "o">>)),
      Entry(IdS1, IntVal(<<"7">>)),
      Entry(IdIn, StrVal(<<"g", "o">>)),
      Entry(IdS2, Absent),
      EntryWithout("segment_id"),
      EntryWithout("segment_name"),
      EntryWithout("duration_seconds"),
      EntryBadMoment }

SeqsUpTo(S, n) == UNION { [1..k -> S] : k \in 0..n }

\* values of prompt_chain.get("global_context", {}): a map with entries, the empty
\* map (also the default when the key or the file is missing), and JSON null
GcDict == [kind |-> "dict", items |-> <<<<"style", "neon">>>>]
GcEmpty == [kind |-> "dict", items |-> <<>>]
GcNull == [kind |-> "null", items |-> <<>>]
\* the same two entries written in the two possible orders
GcOrdered == [kind |-> "dict", items |-> <<<<"style", "neon">>, <<"camera", "pan">>>>]
GcSwapped == [kind |-> "dict", items |-> <<<<"camera", "pan">>, <<"style", "neon">>>>]

\* the files load_all looks for in spec_dir
KinesisFile == "kinesis_spec.yaml"
ManifestFile == "segment_manifest.yaml"
PromptFile == "prompt_chain.json"
AllArtifacts == {KinesisFile, ManifestFile, PromptFile}

---------------------------------------------------------------------------
(* Segment *)

\* str.lower() on the characters used here
Lower(c) == IF c = "A" THEN "a" ELSE c

\* Segment.output_filename: f"{id}_{name.lower().replace(' ', '_')}.mp4"
output_filename(seg) ==
    seg.id \o <<"_">>
      \o [i \in 1..Len(seg.name) |-> IF Lower(seg.name[i]) = " " THEN "_" ELSE Lower(seg.name[i])]
      \o <<".mp4">>

\* config.output_dir / segment.output_filename
OutputPath(seg) == <<"output", "/">> \o output_filename(seg)

\* the metadata written at the output path itself
MutMetadataPath(seg) == OutputPath(seg)

\* output_path.with_suffix('.json')
MetadataPath(seg) == SubSeq(OutputPath(seg), 1, Len(OutputPath(seg)) - 1) \o <<".json">>

---------------------------------------------------------------------------
(* SpecLoader *)

\* a loader that insists on segment_id only and reads the other keys leniently
MutLacksRequired(e) == "segment_id" \notin e.keys

\* prompt_data["segment_id"], ... raise KeyError when the key is missing
LacksRequired(e) == ~(RequiredKeys \subseteq e.keys)

\* a loader that builds the list back to front
MutGetSegments(chain) ==
    [i \in 1..Len(chain) |->
        [id |-> chain[Len(chain) + 1 - i].segment_id, name |-> chain[Len(chain) + 1 - i].segment_name,
         duration_seconds |-> chain[Len(chain) + 1 - i].duration_seconds,
         prompt |-> chain[Len(chain) + 1 - i].prompt,
         key_moments |-> chain[Len(chain) + 1 - i].key_moments]]

\* SpecLoader.get_segments on a chain whose entries all carry the required keys
get_segments(chain) ==
    [i \in 1..Len(chain) |->
        [id |-> chain[i].segment_id, name |-> chain[i].segment_name,
         duration_seconds |-> chain[i].duration_seconds, prompt |-> chain[i].prompt,
         key_moments |-> chain[i].key_moments]]

\* a load_all that opens prompt_chain.json without looking whether it exists
MutLoaderRaises(files, chain) ==
    PromptFile \notin files \/ \E i \in 1..Len(chain) : LacksRequired(chain[i])

\* load_all skips the files that do not exist; get_segments raises KeyError on the
\* first entry without a required key
LoaderRaises(files, chain) == \E i \in 1..Len(chain) : LacksRequired(chain[i])

\* self.prompt_chain after load_all: the "prompts" list of the file, {} without the file
PromptsRead(files, chain) == IF PromptFile \in files THEN chain ELSE <<>>

\* get_global_context(): the "global_context" of the file, {} without the file
ContextRead(files, gc) == IF PromptFile \in files THEN gc ELSE GcEmpty

\* kinesis_spec / segment_manifest after load_all
YamlRead(files, f) == IF f \in files THEN "loaded" ELSE "empty"

---------------------------------------------------------------------------
(* TimelineVisualizer *)

\* int(seg.id[1]) raises unless the second character of the id is a digit;
\* moment['time'] and moment['action'] raise KeyError on one of the first three key
\* moments without that key
TimelineRaisesOn(seg) ==
    \/ Len(seg.id) < 2
    \/ seg.id[2] \notin Digits
    \/ \E k \in 1..Len(seg.key_moments) :
          k <= 3 /\ ~({"time", "action"} \subseteq seg.key_moments[k].keys)

TimelineRaises(segs) == \E i \in 1..Len(segs) : TimelineRaisesOn(segs[i])

---------------------------------------------------------------------------
(* VideoGenerator *)

\* generate_segment lines 200-207, before the try block: segment.prompt_hash calls
\* prompt.encode(), _build_enhanced_prompt calls global_context.get(...) and
\* concatenates the prefix with segment.prompt
PreambleRaises(seg, gc) == seg.prompt.type # "str" \/ gc.kind # "dict"

\* a success result that reports the path the dispatch branch returned: the .json
\* record of the simulator, the .mp4 of the service
MutSuccessResult(seg) ==
    [segment_id |-> seg.id, success |-> TRUE,
     output_path |-> IF client # "none" /\ api_key THEN Some(OutputPath(seg))
                                                  ELSE Some(MetadataPath(seg)),
     error_message |-> None,
     metadata_keys |-> {"prompt_hash", "enhanced_prompt_length", "motion_keywords"}]

\* the GenerationResult of lines 219-229
SuccessResult(seg) ==
    [segment_id |-> seg.id, success |-> TRUE,
     output_path |-> Some(OutputPath(seg)), error_message |-> None,
     metadata_keys |-> {"prompt_hash", "enhanced_prompt_length", "motion_keywords"}]

\* a failure result that keeps the path the segment would have been written to
MutFailureResult(seg, msg) ==
    [segment_id |-> seg.id, success |-> FALSE,
     output_path |-> Some(OutputPath(seg)), error_message |-> Some(msg),
     metadata_keys |-> {}]

\* the GenerationResult of lines 232-237; msg is str(e)
FailureResult(seg, msg) ==
    [segment_id |-> seg.id, success |-> FALSE,
     output_path |-> None, error_message |-> Some(msg),
     metadata_keys |-> {}]

\* the keys _build_enhanced_prompt reads and the labels it writes them under
ContextKeys == <<"style", "color_palette", "device", "lighting", "camera", "quality">>
ContextLabels == <<"Style", "Color Palette", "Device", "Lighting", "Camera", "Quality">>

\* dict.get(k, d) on a map given by its items
DictGet(items, k, d) ==
    LET At == {i \in 1..Len(items) : items[i][1] = k}
    IN  IF At = {} THEN d ELSE items[CHOOSE i \in At : \A j \in At : j <= i][2]

\* a prompt builder that writes the context as it finds it, entry by entry
MutBuildEnhancedPrompt(seg, gc) ==
    [lines |-> [i \in 1..Len(gc.items) |-> gc.items[i]], prompt |-> seg.prompt.text]

\* _build_enhanced_prompt: six "Label: value" lines, a blank line, segment.prompt
build_enhanced_prompt(seg, gc) ==
    [lines |-> [i \in 1..Len(ContextKeys) |->
                  <<ContextLabels[i], DictGet(gc.items, ContextKeys[i], "")>>],
     prompt |-> seg.prompt.text]

\* a builder that reads the context with setdefault: a missing key is inserted
MutContextAfterBuild(gc) ==
    IF \E i \in 1..Len(gc.items) : gc.items[i][1] = "quality"
    THEN gc
    ELSE [gc EXCEPT !.items = Append(gc.items, <<"quality", "">>)]

\* the context map after _build_enhanced_prompt has read it: dict.get inserts nothing
ContextAfterBuild(gc) == gc

\* if self.config.seed: (None and 0 are both falsy)
SeedIsSent(sd) == sd # None /\ sd[1] # 0

\* the payload of _call_api, lines 253-264
ApiPayload(seg, prompt, sd) ==
    [keys |-> {"prompt", "negative_prompt", "duration", "resolution", "fps",
               "guidance_scale", "num_inference_steps"}
                \cup (IF SeedIsSent(sd) THEN {"seed"} ELSE {}),
     prompt |-> prompt,
     duration |-> seg.duration_seconds,
     seed |-> IF SeedIsSent(sd) THEN sd ELSE None]

\* the answer of the service to the next request of the current segment
\* (a client that was closed refuses the request: client.post raises RuntimeError)
Answer ==
    IF client = "closed" THEN "closed"
    ELSE IF requests < Len(plan) THEN plan[requests + 1] ELSE "ok"

\* whether _call_api sleeps and retries after an HTTPStatusError on this attempt
RetryAfterStatusError(a, m) == a < m - 1

---------------------------------------------------------------------------
(* VideoConcatenator *)

\* offsets that advance by the full segment duration: (i + 1) * 8 - 0.2
MutXfadeOffset(i) == ((i + 1) * segment_duration * 10) - transition_duration

\* the offset written for boundary i: the literal 7.8 for i = 0, 7.8 + (i * 7.8) after
XfadeOffset(i) == IF i = 0 THEN FirstOffset ELSE FirstOffset + (i * OffsetStep)

\* the previous label always written in the two-number form: v0001 for boundary 1
MutPrevLabel(i) == <<"v">> \o Fmt02(i - 1) \o Fmt02(i)

\* the label consumed as first input by boundary i > 0
PrevLabel(i) == IF i > 1 THEN <<"v">> \o Fmt02(i - 1) \o Fmt02(i) ELSE <<"v", "0", "1">>

\* one element of filter_parts: [in1][in2]xfade=transition=fade:duration=0.2:offset=..[out]
FilterPart(i) ==
    IF i = 0
    THEN [in1 |-> <<"0", ":", "v">>, in2 |-> <<"1", ":", "v">>, duration |-> 2,
          offset |-> XfadeOffset(0), out |-> <<"v", "0", "1">>]
    ELSE [in1 |-> PrevLabel(i), in2 |-> DecStr(i + 1) \o <<":", "v">>, duration |-> 2,
          offset |-> XfadeOffset(i), out |-> <<"v">> \o Fmt02(i) \o Fmt02(i + 1)]

\* VideoConcatenator._generate_ffmpeg_command
generate_ffmpeg_command(paths, output) ==
    LET n == Len(paths)
    IN  [inputs |-> paths,
         filter_parts |-> [k \in 1..(IF n > 1 THEN n - 1 ELSE 0) |-> FilterPart(k - 1)],
         final_label |-> IF n > 2 THEN <<"v">> \o Fmt02(n - 2) \o Fmt02(n - 1)
                                  ELSE <<"v", "0", "1">>,
         output |-> output]

\* a manifest that records the transition in frames (12 frames at 60 fps)
MutConcatManifest(paths, output) ==
    [segments |-> paths, output |-> output, transition |-> "crossfade",
     transition_duration |-> 12]

\* the manifest written by VideoConcatenator.concatenate
ConcatManifest(paths, output) ==
    [segments |-> paths, output |-> output, transition |-> "crossfade",
     transition_duration |-> transition_duration]

FinalOutput == <<"output", "/", "kaizen_portfolio_final.mp4">>

---------------------------------------------------------------------------
(* GenesisOrchestrator._generate_report *)

\* str(r.output_path) without the guard: str(None) is the text "None"
MutReportPath(r) == IF r.output_path # None THEN r.output_path ELSE Some(<<"N", "o", "n", "e">>)

\* str(r.output_path) if r.output_path else None
ReportPath(r) == IF r.output_path # None THEN r.output_path ELSE None

generate_report(rs) ==
    [total_segments |-> Len(rs),
     successful |-> Cardinality({i \in 1..Len(rs) : rs[i].success}),
     failed |-> Cardinality({i \in 1..Len(rs) : ~rs[i].success}),
     results |-> [i \in 1..Len(rs) |->
                    [segment_id |-> rs[i].segment_id, success |-> rs[i].success,
                     output_path |-> ReportPath(rs[i]), error |-> rs[i].error_message]]]

\* if result.success and result.output_path
CountsAsSuccessful(r) == r.success /\ r.output_path # None

\* successful paths collected at the front of the list
MutCollectPath(paths, r) ==
    IF CountsAsSuccessful(r) THEN <<r.output_path[1]>> \o paths ELSE paths

\* if result.success and result.output_path: successful_paths.append(result.output_path)
CollectPath(paths, r) ==
    IF CountsAsSuccessful(r) THEN Append(paths, r.output_path[1]) ELSE paths

\* the guard with len(successful_paths) > 0
MutShouldConcatenate(cc, paths) == cc /\ Len(paths) > 0

\* if concatenate and len(successful_paths) > 1
ShouldConcatenate(cc, paths) == cc /\ Len(paths) > 1

\* segments = [s for s in segments if s.id in segment_ids], under "if segment_ids:"
RECURSIVE SelectSeq2(_, _)
SelectSeq2(s, ids) ==
    IF s = <<>> THEN <<>>
    ELSE (IF Head(s).id \in ids THEN <<Head(s)>> ELSE <<>>) \o SelectSeq2(Tail(s), ids)

\* a filter step that keeps every loaded segment whatever ids were passed
MutFilterKeepsAll(segs, sids) == segs

\* the filter applied whenever a list was passed, an empty one included
MutFilterSegments(segs, sids) ==
    IF sids # None THEN SelectSeq2(segs, sids[1]) ELSE segs

\* if segment_ids: (None and [] are both falsy) segments = [s for s in segments if ...]
FilterSegments(segs, sids) ==
    IF sids # None /\ sids[1] # {} THEN SelectSeq2(segs, sids[1]) ELSE segs

---------------------------------------------------------------------------
(* State after GenesisOrchestrator.__init__ *)

\* values shared by the initial states of both specifications
Fresh ==
    /\ prompt_chain = <<>>
    /\ global_context = GcDict
    /\ segment_ids = None
    /\ preview = FALSE
    /\ concatenate = FALSE
    /\ segments = <<>>
    /\ idx = 1
    /\ results = <<>>
    /\ result = None
    /\ attempt = 0
    /\ plan = <<>>
    /\ requests = 0
    /\ sleeps = 0
    /\ timeline_written = FALSE
    /\ sim_files = {}
    /\ manifest = None
    /\ ffmpeg_cmd = None
    /\ report = None
    /\ returned = ""
    /\ raised_in = ""
    /\ artifacts = {}
    /\ loader = [kinesis_spec |-> "empty", segment_manifest |-> "empty"]
    /\ in_flight = 0
    /\ enhanced_prompt = None
    /\ payload = None
    /\ modes = {}

\* a generator that opens its client whenever a credential is set
MutClientAtInit(httpx, key) == IF key THEN "open" ELSE "none"

\* VideoGenerator.__init__: if HAS_HTTPX and config.api_key: self.client = AsyncClient(...)
ClientAtInit(httpx, key) == IF httpx /\ key THEN "open" ELSE "none"

\* Config() and VideoGenerator.__init__ for a Config of the given seeds
InitWith(Seeds) ==
    /\ pc = "idle"
    /\ api_key \in BOOLEAN
    /\ has_httpx \in BOOLEAN
    /\ client = ClientAtInit(has_httpx, api_key)
    /\ max_retries \in 0..DefaultMaxRetries
    /\ (client = "none" => max_retries = DefaultMaxRetries)
    /\ seed \in Seeds
    /\ config_segment_duration = segment_duration
    /\ successful_paths = <<>>
    /\ Fresh

\* GenesisOrchestrator.__init__: Config(output_dir=...) leaves the seed unset
Init == InitWith({None})

\* if self.client and self.config.api_key
LiveMode == client # "none" /\ api_key

---------------------------------------------------------------------------
(* GenesisOrchestrator.run *)

\* an exception leaves run(): nothing after the raise point is executed
Raise(where) ==
    /\ pc' = "raised"
    /\ raised_in' = where

\* what run() does up to get_global_context() on a spec_dir holding the files
\* `files`, whose prompt file (when present) holds `chain` and `gc`
LoadAll(chain, files, gc, sids, pv, cc) ==
    /\ artifacts' = files
    /\ loader' = [kinesis_spec |-> YamlRead(files, KinesisFile),
                  segment_manifest |-> YamlRead(files, ManifestFile)]
    /\ prompt_chain' = PromptsRead(files, chain)
    /\ segment_ids' = sids
    /\ preview' = pv
    /\ concatenate' = cc
    /\ IF LoaderRaises(files, PromptsRead(files, chain))
       THEN /\ Raise("loader")
            /\ UNCHANGED <<segments, global_context>>
       ELSE /\ segments' = get_segments(PromptsRead(files, chain))
            /\ global_context' = ContextRead(files, gc)
            /\ pc' = "loaded"
            /\ UNCHANGED raised_in

\* the values --segment can take: not given, given with no value, given with values
SegmentIdArgs == {None} \cup {Some(S) : S \in SUBSET {IdS1, IdS2}}

\* run() is called on a spec_dir that holds all three files:
\* loader.load_all(), get_segments(), get_global_context()
Load ==
    /\ pc = "idle"
    /\ \E chain \in SeqsUpTo(Entries, MaxSegs), gc \in {GcDict, GcNull},
          sids \in SegmentIdArgs, pv \in BOOLEAN, cc \in BOOLEAN :
          LoadAll(chain, AllArtifacts, gc, sids, pv, cc)
    /\ UNCHANGED <<api_key, client, max_retries, idx, results, successful_paths, result,
                   attempt, plan, requests, sleeps, timeline_written, sim_files, manifest,
                   ffmpeg_cmd, report, returned, in_flight,
                   has_httpx, seed, config_segment_duration, enhanced_prompt, payload, modes>>

\* run() is called on a spec_dir in which any of the three files may be missing
LoadPartial ==
    /\ pc = "idle"
    /\ \E chain \in SeqsUpTo(Entries, MaxPartial), files \in SUBSET AllArtifacts,
          gc \in {GcDict, GcEmpty, GcNull},
          sids \in SegmentIdArgs, pv \in BOOLEAN, cc \in BOOLEAN :
          LoadAll(chain, files, gc, sids, pv, cc)
    /\ UNCHANGED <<api_key, client, max_retries, idx, results, successful_paths, result,
                   attempt, plan, requests, sleeps, timeline_written, sim_files, manifest,
                   ffmpeg_cmd, report, returned, in_flight,
                   has_httpx, seed, config_segment_duration, enhanced_prompt, payload, modes>>

\* if segment_ids: segments = [s for s in segments if s.id in segment_ids]
Filter ==
    /\ pc = "loaded"
    /\ segments' = FilterSegments(segments, segment_ids)
    /\ pc' = "filtered"
    /\ UNCHANGED <<api_key, client, max_retries, prompt_chain, global_context, segment_ids,
                   preview, concatenate, idx, results, successful_paths, result, attempt,
                   plan, requests, sleeps, timeline_written, sim_files, manifest,
                   ffmpeg_cmd, report, returned, raised_in,
                   artifacts, loader, in_flight,
                   has_httpx, seed, config_segment_duration, enhanced_prompt, payload, modes>>

\* visualizer.generate(), the timeline file, and the early return of a preview run
Timeline ==
    /\ pc = "filtered"
    /\ IF TimelineRaises(segments)
       THEN /\ Raise("timeline")
            /\ UNCHANGED <<timeline_written, returned>>
       ELSE /\ timeline_written' = TRUE
            /\ UNCHANGED raised_in
            /\ IF preview
               THEN pc' = "done" /\ returned' = "preview"
               ELSE pc' = "loop" /\ UNCHANGED returned
    /\ UNCHANGED <<api_key, client, max_retries, prompt_chain, global_context, segment_ids,
                   preview, concatenate, segments, idx, results, successful_paths, result,
                   attempt, plan, requests, sleeps, sim_files, manifest, ffmpeg_cmd, report,
                   artifacts, loader, in_flight,
                   has_httpx, seed, config_segment_duration, enhanced_prompt, payload, modes>>

\* a loop that goes on to its next segment while the call it made is still suspended
MutLoopReady == pc \in {"loop", "api", "retry_sleep", "sim"}

\* "for segment in segments: result = await ...": the loop is at its head only when
\* the awaited call of the previous iteration has returned and was collected
LoopReady == pc = "loop"

\* for segment in segments: the call of generate_segment, up to its first await: the
\* enhanced prompt, the dispatch and, in a live call, the payload of _call_api.
\* The service's behaviour towards this segment is fixed here.
GenerateSegment ==
    /\ LoopReady
    /\ idx <= Len(segments)
    /\ IF PreambleRaises(segments[idx], global_context)
       THEN /\ Raise("generate_segment")
            /\ UNCHANGED <<plan, in_flight, enhanced_prompt, payload, modes>>
       ELSE /\ UNCHANGED raised_in
            /\ in_flight' = in_flight + 1
            /\ enhanced_prompt' = Some(build_enhanced_prompt(segments[idx], global_context))
            /\ IF LiveMode
               THEN /\ pc' = "api"
                    /\ modes' = modes \cup {"live"}
                    /\ payload' = Some(ApiPayload(segments[idx],
                                     build_enhanced_prompt(segments[idx], global_context), seed))
                    /\ plan' \in SeqsUpTo({"status", "transport"}, max_retries)
               ELSE /\ pc' = "sim"
                    /\ modes' = modes \cup {"sim"}
                    /\ UNCHANGED <<plan, payload>>
    /\ attempt' = 0
    /\ requests' = 0
    /\ sleeps' = 0
    /\ result' = None
    /\ global_context' = IF PreambleRaises(segments[idx], global_context)
                          THEN global_context
                          ELSE ContextAfterBuild(global_context)
    /\ UNCHANGED <<api_key, client, max_retries, prompt_chain, segment_ids,
                   preview, concatenate, segments, idx, results, successful_paths,
                   timeline_written, sim_files, manifest, ffmpeg_cmd, report, returned,
                   artifacts, loader,
                   has_httpx, seed, config_segment_duration>>

\* one pass of "for attempt in range(max_retries)": client.post, raise_for_status and,
\* in generate_segment, the result built from a returned response or a caught exception.
\* Only httpx.HTTPStatusError is caught inside the loop.
ApiPost ==
    /\ pc = "api"
    /\ attempt < max_retries
    /\ requests' = requests + 1
    /\ IF Answer = "ok"
       THEN /\ result' = Some(SuccessResult(segments[idx]))
            /\ pc' = "collect"
            /\ in_flight' = in_flight - 1
       ELSE IF Answer = "status" /\ RetryAfterStatusError(attempt, max_retries)
       THEN /\ pc' = "retry_sleep"
            /\ UNCHANGED <<result, in_flight>>
       ELSE /\ result' = Some(FailureResult(segments[idx],
                                IF Answer = "status" THEN "HTTPStatusError"
                                ELSE IF Answer = "closed" THEN "RuntimeError"
                                ELSE "TransportError"))
            /\ pc' = "collect"
            /\ in_flight' = in_flight - 1
    /\ UNCHANGED <<api_key, client, max_retries, prompt_chain, global_context, segment_ids,
                   preview, concatenate, segments, idx, results, successful_paths, attempt,
                   plan, sleeps, timeline_written, sim_files, manifest, ffmpeg_cmd, report,
                   returned, raised_in,
                   artifacts, loader,
                   has_httpx, seed, config_segment_duration, enhanced_prompt, payload, modes>>

\* the for loop of _call_api ends without a return: _call_api returns None and
\* generate_segment builds the result of lines 219-229
ApiLoopExit ==
    /\ pc = "api"
    /\ ~(attempt < max_retries)
    /\ result' = Some(SuccessResult(segments[idx]))
    /\ pc' = "collect"
    /\ in_flight' = in_flight - 1
    /\ UNCHANGED <<api_key, client, max_retries, prompt_chain, global_context, segment_ids,
                   preview, concatenate, segments, idx, results, successful_paths, attempt,
                   plan, requests, sleeps, timeline_written, sim_files, manifest, ffmpeg_cmd,
                   report, returned, raised_in,
                   artifacts, loader,
                   has_httpx, seed, config_segment_duration, enhanced_prompt, payload, modes>>

\* await asyncio.sleep(self.config.retry_delay), then the next pass of the loop
RetrySleep ==
    /\ pc = "retry_sleep"
    /\ sleeps' = sleeps + 1
    /\ attempt' = attempt + 1
    /\ pc' = "api"
    /\ UNCHANGED <<api_key, client, max_retries, prompt_chain, global_context, segment_ids,
                   preview, concatenate, segments, idx, results, successful_paths, result,
                   plan, requests, timeline_written, sim_files, manifest, ffmpeg_cmd, report,
                   returned, raised_in,
                   artifacts, loader, in_flight,
                   has_httpx, seed, config_segment_duration, enhanced_prompt, payload, modes>>

\* _simulate_generation after its asyncio.sleep(0.5): the metadata file, and the
\* result of lines 219-229
Simulate ==
    /\ pc = "sim"
    /\ sim_files' = sim_files \cup {MetadataPath(segments[idx])}
    /\ result' = Some(SuccessResult(segments[idx]))
    /\ pc' = "collect"
    /\ in_flight' = in_flight - 1
    /\ UNCHANGED <<api_key, client, max_retries, prompt_chain, global_context, segment_ids,
                   preview, concatenate, segments, idx, results, successful_paths, attempt,
                   plan, requests, sleeps, timeline_written, manifest, ffmpeg_cmd, report,
                   returned, raised_in,
                   artifacts, loader,
                   has_httpx, seed, config_segment_duration, enhanced_prompt, payload, modes>>

\* run() resumes with the result: results.append, successful_paths.append
Collect ==
    /\ pc = "collect"
    /\ results' = Append(results, result[1])
    /\ successful_paths' = CollectPath(successful_paths, result[1])
    /\ idx' = idx + 1
    /\ pc' = "loop"
    /\ result' = None
    /\ attempt' = 0
    /\ plan' = <<>>
    /\ enhanced_prompt' = None
    /\ payload' = None
    /\ requests' = 0
    /\ sleeps' = 0
    /\ UNCHANGED <<api_key, client, max_retries, prompt_chain, global_context, segment_ids,
                   preview, concatenate, segments, timeline_written, sim_files, manifest,
                   ffmpeg_cmd, report, returned, raised_in,
                   artifacts, loader, in_flight,
                   has_httpx, seed, config_segment_duration, modes>>

\* after the loop: concatenator.concatenate(successful_paths, final_output) under its guard
Concatenate ==
    /\ LoopReady
    /\ idx > Len(segments)
    /\ IF ShouldConcatenate(concatenate, successful_paths)
       THEN /\ manifest' = Some(ConcatManifest(successful_paths, FinalOutput))
            /\ ffmpeg_cmd' = Some(generate_ffmpeg_command(successful_paths, FinalOutput))
       ELSE UNCHANGED <<manifest, ffmpeg_cmd>>
    /\ pc' = "report"
    /\ UNCHANGED <<api_key, client, max_retries, prompt_chain, global_context, segment_ids,
                   preview, concatenate, segments, idx, results, successful_paths, result,
                   attempt, plan, requests, sleeps, timeline_written, sim_files, report,
                   returned, raised_in,
                   artifacts, loader, in_flight,
                   has_httpx, seed, config_segment_duration, enhanced_prompt, payload, modes>>

\* a report written as soon as the loop is over, without the concatenation step
MutReportDue == pc = "report" \/ (pc = "loop" /\ idx > Len(segments))

\* the report statements (lines 541-544) follow the concatenation statement
ReportDue == pc = "report"

\* report = self._generate_report(results); json.dump(report, f)
Report ==
    /\ ReportDue
    /\ report' = Some(generate_report(results))
    /\ pc' = "close"
    /\ UNCHANGED <<api_key, client, max_retries, prompt_chain, global_context, segment_ids,
                   preview, concatenate, segments, idx, results, successful_paths, result,
                   attempt, plan, requests, sleeps, timeline_written, sim_files, manifest,
                   ffmpeg_cmd, returned, raised_in,
                   artifacts, loader, in_flight,
                   has_httpx, seed, config_segment_duration, enhanced_prompt, payload, modes>>

\* VideoGenerator.close: if self.client: await self.client.aclose()
CloseClient(c) == IF c # "none" THEN "closed" ELSE c

\* await self.generator.close(); return report
Close ==
    /\ pc = "close"
    /\ client' = CloseClient(client)
    /\ returned' = "report"
    /\ pc' = "done"
    /\ UNCHANGED <<api_key, max_retries, prompt_chain, global_context, segment_ids,
                   preview, concatenate, segments, idx, results, successful_paths, result,
                   attempt, plan, requests, sleeps, timeline_written, sim_files, manifest,
                   ffmpeg_cmd, report, raised_in,
                   artifacts, loader, in_flight,
                   has_httpx, seed, config_segment_duration, enhanced_prompt, payload, modes>>

Next ==
    \/ Load
    \/ Filter
    \/ Timeline
    \/ GenerateSegment
    \/ ApiPost
    \/ ApiLoopExit
    \/ RetrySleep
    \/ Simulate
    \/ Collect
    \/ Concatenate
    \/ Report
    \/ Close

Spec == Init /\ [][Next]_vars

\* runs over spec directories in which files may be missing
NextPartial ==
    \/ LoadPartial
    \/ Filter
    \/ Timeline
    \/ GenerateSegment
    \/ ApiPost
    \/ ApiLoopExit
    \/ RetrySleep
    \/ Simulate
    \/ Collect
    \/ Concatenate
    \/ Report
    \/ Close

SpecPartial == Init /\ [][NextPartial]_vars

\* every awaited service call and delay returns, and run() is not cancelled: a step
\* that can be taken is taken
SpecFair == SpecPartial /\ WF_vars(NextPartial)

---------------------------------------------------------------------------
(* run() over well-formed prompt chains whose entries differ in id, name and duration *)

IdS3 == <<"S", "3">>
IdS1x2 == <<"S", "1", "_", "2">>
NameX == <<"x">>
Name2X == <<"2", " ", "x">>

\* a well-formed entry of the given id, name and duration
NamedEntry(id, name, d) ==
    [Entry(id, StrVal(<<"g", "o">>)) EXCEPT !.segment_name = name, !.duration_seconds = d]

NamedEntries ==
    { NamedEntry(IdS2, NameA, 8),
      NamedEntry(IdS3, NameA, 8),
      NamedEntry(IdS1, Name2X, 8),
      NamedEntry(IdS1x2, NameX, 5) }

\* run() is called on a spec_dir whose prompt chain is built from NamedEntries
LoadNamed ==
    /\ pc = "idle"
    /\ \E chain \in SeqsUpTo(NamedEntries, MaxSegs), pv \in BOOLEAN, cc \in BOOLEAN :
          LoadAll(chain, AllArtifacts, GcDict, None, pv, cc)
    /\ UNCHANGED <<api_key, client, max_retries, idx, results, successful_paths, result,
                   attempt, plan, requests, sleeps, timeline_written, sim_files, manifest,
                   ffmpeg_cmd, report, returned, in_flight,
                   has_httpx, seed, config_segment_duration, enhanced_prompt, payload, modes>>

NextNamed ==
    \/ LoadNamed
    \/ Filter
    \/ Timeline
    \/ GenerateSegment
    \/ ApiPost
    \/ ApiLoopExit
    \/ RetrySleep
    \/ Simulate
    \/ Collect
    \/ Concatenate
    \/ Report
    \/ Close

SpecNamed == Init /\ [][NextNamed]_vars

---------------------------------------------------------------------------
(* run() of an orchestrator whose Config carries a seed, over well-formed chains and
   global contexts of different key orders *)

\* the values of Config.seed
Seeds == {None} \cup {Some(n) : n \in (0 - MaxSeed)..MaxSeed}

InitConfigured == InitWith(Seeds)

\* the "global_context" values of the prompt file
Contexts == {GcDict, GcOrdered, GcSwapped, GcEmpty, GcNull}

\* run() is called on a spec_dir with a short well-formed prompt chain
LoadConfigured ==
    /\ pc = "idle"
    /\ \E chain \in SeqsUpTo({Entry(IdS1, StrVal(<<"g", "o">>)), Entry(IdS2, StrVal(<<"g", "o">>))},
                              MaxPartial),
          gc \in Contexts, pv \in BOOLEAN, cc \in BOOLEAN :
          LoadAll(chain, AllArtifacts, gc, None, pv, cc)
    /\ UNCHANGED <<api_key, client, max_retries, idx, results, successful_paths, result,
                   attempt, plan, requests, sleeps, timeline_written, sim_files, manifest,
                   ffmpeg_cmd, report, returned, in_flight,
                   has_httpx, seed, config_segment_duration, enhanced_prompt, payload, modes>>

NextConfigured ==
    \/ LoadConfigured
    \/ Filter
    \/ Timeline
    \/ GenerateSegment
    \/ ApiPost
    \/ ApiLoopExit
    \/ RetrySleep
    \/ Simulate
    \/ Collect
    \/ Concatenate
    \/ Report
    \/ Close

SpecConfigured == InitConfigured /\ [][NextConfigured]_vars

----------------------------------------------------------------------------
(* Several run() calls on one GenesisOrchestrator: the Config, the loader, the
   generator with its client and the files already written stay; the arguments and
   the locals of run() are those of the new call *)

\* run() is called again after the previous call returned or raised
RunAgain ==
    /\ pc \in {"done", "raised"}
    /\ pc' = "idle"
    /\ segment_ids' = None
    /\ preview' = FALSE
    /\ concatenate' = FALSE
    /\ segments' = <<>>
    /\ idx' = 1
    /\ results' = <<>>
    /\ successful_paths' = <<>>
    /\ result' = None
    /\ attempt' = 0
    /\ plan' = <<>>
    /\ requests' = 0
    /\ sleeps' = 0
    /\ returned' = ""
    /\ raised_in' = ""
    /\ in_flight' = 0
    /\ enhanced_prompt' = None
    /\ payload' = None
    /\ modes' = {}
    /\ UNCHANGED <<api_key, client, max_retries, prompt_chain, global_context,
                   timeline_written, sim_files, manifest, ffmpeg_cmd, report,
                   artifacts, loader, has_httpx, seed, config_segment_duration>>

NextRepeat ==
    \/ LoadConfigured
    \/ Filter
    \/ Timeline
    \/ GenerateSegment
    \/ ApiPost
    \/ ApiLoopExit
    \/ RetrySleep
    \/ Simulate
    \/ Collect
    \/ Concatenate
    \/ Report
    \/ Close
    \/ RunAgain

SpecRepeat == Init /\ [][NextRepeat]_vars

---------------------------------------------------------------------------
(* VideoConcatenator.concatenate applied to an arbitrary path list *)

PlannerPaths == {OutputPath([id |-> IdS1, name |-> NameA]), OutputPath([id |-> IdS2, name |-> NameA])}

\* a VideoConcatenator about to be called with some list of paths
InitConcat ==
    /\ pc = "planner"
    /\ api_key = FALSE
    /\ has_httpx = TRUE
    /\ client = "none"
    /\ max_retries = DefaultMaxRetries
    /\ seed = None
    /\ config_segment_duration \in segment_duration..(segment_duration + MaxDurationDelta)
    /\ successful_paths \in SeqsUpTo(PlannerPaths, MaxPaths)
    /\ Fresh

\* VideoConcatenator.concatenate(segment_paths, output_path)
PlannerCall ==
    /\ pc = "planner"
    /\ manifest' = Some(ConcatManifest(successful_paths, FinalOutput))
    /\ ffmpeg_cmd' = Some(generate_ffmpeg_command(successful_paths, FinalOutput))
    /\ pc' = "planned"
    /\ UNCHANGED <<api_key, client, max_retries, prompt_chain, global_context, segment_ids,
                   preview, concatenate, segments, idx, results, successful_paths, result,
                   attempt, plan, requests, sleeps, timeline_written, sim_files, report,
                   returned, raised_in,
                   artifacts, loader, in_flight,
                   has_httpx, seed, config_segment_duration, enhanced_prompt, payload, modes>>

NextConcat == PlannerCall

SpecConcat == InitConcat /\ [][NextConcat]_vars

---------------------------------------------------------------------------
(* Properties *)

\* the boundaries of the encode command written by the concatenator
Parts == ffmpeg_cmd[1].filter_parts
NInputs == Len(ffmpeg_cmd[1].inputs)

\* generate_segment has returned to run() and the result is not yet appended
Returned == pc = "collect"

\* number of collected results with success = True
NSucc == Cardinality({i \in 1..Len(results) : results[i].success})

\* exactly one of output_path and error_message is present; output_path iff success
ResultShapeOk(r) ==
    /\ (r.output_path # None) # (r.error_message # None)
    /\ (r.output_path # None) <=> r.success

\* run() is past its concatenation step
PastConcatenation == pc \in {"report", "close"} \/ (pc = "done" /\ returned = "report")

\* C1 as stated: for N >= 2 inputs the command has N-1 boundaries and boundary i
\* has offset (i+1)*D - T, that is 7.8, 15.8, 23.8, ...
C1_OffsetsAsStated ==
    (ffmpeg_cmd # None /\ NInputs >= 2) =>
        /\ Len(Parts) = NInputs - 1
        /\ \A i \in 0..(NInputs - 2) :
              Parts[i + 1].offset = ((i + 1) * segment_duration * 10) - transition_duration

\* C1 amended: for N >= 2 inputs the command has N-1 boundaries and boundary i
\* has offset (i+1)*(D - T), that is 7.8, 15.6, 23.4, ...
C1_OffsetsAsComputed ==
    (ffmpeg_cmd # None /\ NInputs >= 2) =>
        /\ Len(Parts) = NInputs - 1
        /\ \A i \in 0..(NInputs - 2) :
              Parts[i + 1].offset = (i + 1) * ((segment_duration * 10) - transition_duration)

\* a command for at least four inputs was planned: boundaries 0, 1 and 2 exist
C1_Witness == ffmpeg_cmd # None /\ NInputs >= 4 /\ Len(Parts) = NInputs - 1

\* C2: in live mode, when the service fails the first k < max_retries attempts and then
\* succeeds, generate_segment returns success after exactly k+1 requests and k delays
C2_SuccessAfterKFailures ==
    (Returned /\ LiveMode /\ Len(plan) < max_retries) =>
        /\ result[1].success
        /\ requests = Len(plan) + 1
        /\ sleeps = Len(plan)

\* C3: in live mode, when the service fails all max_retries attempts, generate_segment
\* issues exactly max_retries requests, sleeps max_retries - 1 times and returns a failure
\* result carrying an error message
C3_FailureAfterExhaustion ==
    (Returned /\ LiveMode /\ max_retries >= 1 /\ Len(plan) = max_retries) =>
        /\ ~result[1].success
        /\ result[1].error_message # None
        /\ requests = max_retries
        /\ sleeps = max_retries - 1

\* C4: a transport error (or timeout) on a non-final attempt never ends the segment:
\* the generator sleeps and issues another attempt
C4_TransportErrorRetried ==
    ~(/\ Returned
      /\ LiveMode
      /\ requests >= 1
      /\ requests < max_retries
      /\ requests <= Len(plan)
      /\ plan[requests] = "transport")

\* C5: no exception raised inside generate_segment ever leaves it
C5_NoExceptionEscapesGenerator == raised_in # "generate_segment"

\* C6: every GenerationResult has exactly one of output_path and error_message, and
\* has an output_path iff success is true
C6_ResultShape ==
    /\ \A i \in 1..Len(results) : ResultShapeOk(results[i])
    /\ result # None => ResultShapeOk(result[1])

\* a run collected a successful and a failed result
C6_Witness ==
    \E i, j \in 1..Len(results) : results[i].success /\ ~results[j].success

\* C7: the report satisfies successful + failed = total_segments = number of results,
\* and each entry has a non-null output_path iff its success is true
C7_ReportCounts ==
    report # None =>
        LET r == report[1]
        IN  /\ r.successful + r.failed = r.total_segments
            /\ r.total_segments = Len(results)
            /\ Len(r.results) = Len(results)
            /\ \A i \in 1..Len(r.results) :
                  (r.results[i].output_path # None) <=> r.results[i].success

\* a report over successful and failed results was written
C7_Witness ==
    report # None /\ report[1].successful >= 1 /\ report[1].failed >= 1

\* C8: once a non-preview run has begun generating and has ended its generation phase
\* (normally or not), there is exactly one result per segment of the filtered list, in
\* list order: no segment's failure keeps a later segment from being attempted
C8_OneResultPerSegmentInOrder ==
    (PastConcatenation \/ (pc = "raised" /\ raised_in = "generate_segment")) =>
        /\ Len(results) = Len(segments)
        /\ \A i \in 1..Len(results) : results[i].segment_id = segments[i].id

\* C9: when run() is left, by return or by exception, an opened client was released
C9_ClientReleasedOnExit == pc \in {"done", "raised"} => client # "open"

\* C10: the concatenator is invoked iff concatenation was requested and at least two
\* segments succeeded; otherwise neither manifest nor command is written, and the run
\* goes on to write the report
C10_ConcatenationGuard ==
    /\ (manifest # None) <=> (ffmpeg_cmd # None)
    /\ manifest # None => (concatenate /\ NSucc >= 2)
    /\ PastConcatenation => ((manifest # None) <=> (concatenate /\ NSucc >= 2))
    /\ (pc = "close" \/ (pc = "done" /\ returned = "report")) => report # None

\* a finished run with concatenation requested and a single success among several
\* results: nothing was planned and the report was written
C10_Witness ==
    /\ pc = "done"
    /\ concatenate
    /\ Len(results) >= 2
    /\ NSucc = 1
    /\ manifest = None
    /\ ffmpeg_cmd = None
    /\ report # None

\* the output paths of the segments whose generation succeeded, among the first n,
\* in list order
RECURSIVE OutputsOfSucceeded(_)
OutputsOfSucceeded(n) ==
    IF n = 0 THEN <<>>
    ELSE IF results[n].success
         THEN Append(OutputsOfSucceeded(n - 1), OutputPath(segments[n]))
         ELSE OutputsOfSucceeded(n - 1)

\* C11: when the concatenation planner has run, the path list recorded in the manifest
\* (and given to the encode command) is exactly the output paths of the segments whose
\* generation succeeded, in list order, failed segments omitted and nothing substituted
C11_PlannerGetsSuccessfulInOrder ==
    manifest # None =>
        /\ Len(results) = Len(segments)
        /\ manifest[1].segments = OutputsOfSucceeded(Len(segments))
        /\ ffmpeg_cmd[1].inputs = OutputsOfSucceeded(Len(segments))

\* the planner ran on a run with a failed segment between or beside two successful
\* segments of different output paths
C11_Witness ==
    /\ manifest # None
    /\ \E i \in 1..Len(results) : ~results[i].success
    /\ Len(manifest[1].segments) = 2
    /\ manifest[1].segments[1] # manifest[1].segments[2]

\* run() has ended, by returning or by an exception leaving it
RunEnded == pc \in {"done", "raised"}

\* C12: a run with preview = true over a non-empty segment list writes the timeline
\* file and returns the preview status, with no call of generate_segment, no call of
\* the concatenation planner and no report
C12_PreviewReturnsAfterTimeline ==
    (RunEnded /\ preview /\ Len(segments) >= 1) =>
        /\ timeline_written
        /\ returned = "preview"
        /\ results = <<>>
        /\ in_flight = 0
        /\ manifest = None
        /\ report = None

\* the part of C12 the code keeps: a preview run never generates, plans or reports
C12_PreviewGeneratesNothing ==
    preview => (results = <<>> /\ result = None /\ in_flight = 0
                /\ manifest = None /\ report = None)

\* the load of this run succeeded: run() got its segments and global context
LoadSucceeded == pc # "idle" /\ raised_in # "loader"

\* the report lists every collected result with its success flag and, for each
\* failure, an error message
ReportComplete ==
    /\ report[1].total_segments = Len(results)
    /\ Len(report[1].results) = Len(results)
    /\ \A i \in 1..Len(results) :
          /\ report[1].results[i].segment_id = results[i].segment_id
          /\ report[1].results[i].success = results[i].success
          /\ ~results[i].success => report[1].results[i].error # None

\* C13: every non-preview run whose load succeeded ends with a report built from all
\* generation results, one per attempted segment, whatever the number of successes,
\* each with a success flag and, for a failure, an error message
C13_ReportAlwaysWritten ==
    (RunEnded /\ ~preview /\ LoadSucceeded) =>
        /\ report # None
        /\ Len(results) = Len(segments)
        /\ ReportComplete

\* the part of C13 the code keeps: a report, once written, is complete for the results
\* collected, also when none succeeded
C13_WrittenReportIsComplete ==
    report # None => (ReportComplete /\ Len(results) = Len(segments))

\* entry i of the prompt chain lacks one of the four required fields
EntryMalformed(i) ==
    ~({"segment_id", "segment_name", "duration_seconds", "prompt"}
          \subseteq prompt_chain[i].keys)

\* C14: when a prompt-chain entry lacks a required field the load fails and the run
\* aborts there: generate_segment is called for no segment, valid entries before the
\* malformed one included, and no report is written
C14_MalformedEntryAbortsRun ==
    (pc # "idle" /\ \E i \in 1..Len(prompt_chain) : EntryMalformed(i)) =>
        /\ pc = "raised"
        /\ raised_in = "loader"
        /\ segments = <<>>
        /\ ~timeline_written
        /\ results = <<>>
        /\ result = None
        /\ in_flight = 0
        /\ requests = 0
        /\ sim_files = {}
        /\ manifest = None
        /\ report = None

\* the load failed on a chain whose first entry is valid and whose second is malformed
C14_Witness ==
    /\ pc = "raised"
    /\ raised_in = "loader"
    /\ Len(prompt_chain) >= 2
    /\ ~EntryMalformed(1)
    /\ EntryMalformed(2)

\* a path with its last suffix replaced by .json
JsonSibling(p) == SubSeq(p, 1, Len(p) - 1) \o <<".json">>

\* C15 as stated: in simulation mode the metadata record of a segment is persisted at
\* the path reported as output_path in that segment's result
C15_MetadataAtOutputPath ==
    ~LiveMode => \A i \in 1..Len(results) :
                    results[i].success => results[i].output_path[1] \in sim_files

\* C15 amended: in simulation mode the metadata record of a segment is persisted at
\* the reported output_path with its suffix replaced by .json, and nothing is written
\* at the reported output_path itself
C15_MetadataAtJsonSibling ==
    (~LiveMode /\ pc # "collect") =>
        /\ sim_files = {JsonSibling(results[i].output_path[1]) : i \in 1..Len(results)}
        /\ \A i \in 1..Len(results) :
              /\ results[i].success
              /\ results[i].output_path[1] = OutputPath(segments[i])
              /\ results[i].output_path[1] \notin sim_files

\* two segments of different output paths were simulated and collected
C15_Witness ==
    /\ ~LiveMode
    /\ Len(results) >= 2
    /\ Cardinality(sim_files) >= 2

\* C16: the timeline renderer returns text for every segment list the loader can
\* produce and never raises, so every run whose load succeeded gets past the timeline
\* step with the timeline written
C16_TimelineIsTotal ==
    /\ raised_in # "timeline"
    /\ (LoadSucceeded /\ pc \notin {"loaded", "filtered"}) => timeline_written

\* run() is past its filter step
PastFilter == LoadSucceeded /\ pc # "loaded"

\* the loaded segments whose id is one of ids, in prompt-chain order
LoadedWithIdIn(ids) ==
    LET Chosen(s) == s.id \in ids
    IN  SelectSeq(get_segments(prompt_chain), Chosen)

\* the results collected so far are those of the first segments of the list, in order
ResultsFollowSegments ==
    /\ Len(results) <= Len(segments)
    /\ \A i \in 1..Len(results) : results[i].segment_id = segments[i].id

\* C17 as stated: whenever a subset of ids is supplied, the segments generated are
\* exactly the loaded segments whose id is one of the supplied ids, in loaded order
C17_SuppliedSubsetFilters ==
    (PastFilter /\ segment_ids # None) =>
        /\ segments = LoadedWithIdIn(segment_ids[1])
        /\ ResultsFollowSegments

\* C17 amended: when a non-empty subset of ids is supplied, the segments generated
\* are exactly the loaded segments whose id is one of the supplied ids, in loaded
\* order, each once, unknown ids dropped without error; when no subset or an empty
\* one is supplied, all loaded segments are generated
C17_NonEmptySubsetFilters ==
    PastFilter =>
        /\ segments = IF segment_ids # None /\ segment_ids[1] # {}
                      THEN LoadedWithIdIn(segment_ids[1])
                      ELSE get_segments(prompt_chain)
        /\ ResultsFollowSegments
        /\ raised_in # "filter"

\* a subset naming an id that no loaded segment has was applied, and it kept some
\* loaded segments and dropped others
C17_Witness ==
    /\ PastFilter
    /\ segment_ids # None
    /\ \E id \in segment_ids[1] :
          \A i \in 1..Len(prompt_chain) : prompt_chain[i].segment_id # id
    /\ Len(segments) >= 1
    /\ Len(segments) < Len(prompt_chain)
    /\ Len(results) = Len(segments)

\* C18: for a prompt chain whose entries all carry the required fields the loader
\* does not fail and returns one segment per entry, in declaration order: segment i
\* has the segment_id (and name, duration, prompt) of entry i
C18_OneSegmentPerEntryInOrder ==
    (pc # "idle" /\ \A i \in 1..Len(prompt_chain) : ~EntryMalformed(i)) =>
        /\ raised_in # "loader"
        /\ pc = "loaded" =>
              /\ Len(segments) = Len(prompt_chain)
              /\ \A i \in 1..Len(prompt_chain) :
                    /\ segments[i].id = prompt_chain[i].segment_id
                    /\ segments[i].name = prompt_chain[i].segment_name
                    /\ segments[i].duration_seconds = prompt_chain[i].duration_seconds
                    /\ segments[i].prompt = prompt_chain[i].prompt

\* the loader returned three segments, the first and the last of different ids
C18_Witness ==
    /\ pc = "loaded"
    /\ Len(prompt_chain) = 3
    /\ Len(segments) = 3
    /\ segments[1].id # segments[3].id

\* C19: each of the three artifacts is optional: a missing file leaves the loader's
\* structure for it empty and never fails the load; without the prompt chain file the
\* segment list and the global context are empty, nothing raises, and a non-preview
\* run that has returned wrote a report with total_segments = 0
C19_MissingArtifactsAreEmpty ==
    pc # "idle" =>
        /\ KinesisFile \notin artifacts => loader.kinesis_spec = "empty"
        /\ ManifestFile \notin artifacts => loader.segment_manifest = "empty"
        /\ raised_in = "loader" => \E i \in 1..Len(prompt_chain) : EntryMalformed(i)
        /\ PromptFile \notin artifacts =>
              /\ prompt_chain = <<>>
              /\ segments = <<>>
              /\ global_context = [kind |-> "dict", items |-> <<>>]
              /\ pc # "raised"
              /\ results = <<>>
              /\ (pc = "done" /\ ~preview) =>
                    /\ returned = "report"
                    /\ report # None
                    /\ report[1].total_segments = 0
                    /\ report[1].results = <<>>

\* a non-preview run over a directory with none of the three files has returned
C19_Witness ==
    /\ artifacts = {}
    /\ ~preview
    /\ pc = "done"
    /\ report # None
    /\ report[1].total_segments = 0
    /\ loader = [kinesis_spec |-> "empty", segment_manifest |-> "empty"]

\* a call of generate_segment is suspended at its network call, retry delay or
\* simulated delay
Suspended == pc \in {"api", "retry_sleep", "sim"}

\* C20: segments are generated one at a time: at most one generation is in flight,
\* and while segment idx is at an attempt or a retry delay every earlier segment has
\* completed and its result is collected, and no later segment has started
C20_OneGenerationAtATime ==
    /\ in_flight \in {0, 1}
    /\ in_flight = 1 <=> Suspended
    /\ Suspended =>
          /\ idx \in 1..Len(segments)
          /\ Len(results) = idx - 1
          /\ result = None
          /\ \A i \in 1..Len(results) : results[i].segment_id = segments[i].id
    /\ (requests > 0 \/ sleeps > 0) => (Suspended \/ Returned)

\* the second segment is at a retry delay after the first one completed
C20_Witness ==
    /\ pc = "retry_sleep"
    /\ in_flight = 1
    /\ idx = 2
    /\ Len(results) = 1
    /\ requests >= 1

\* generate_segment is inside its live branch / its simulation branch
InLiveCall == pc \in {"api", "retry_sleep"}
InSimCall == pc = "sim"

\* C21 as stated: the dispatch mode is the same for every segment of a run, live for
\* every segment when a credential is configured and simulated for every segment
\* when none is
C21_ModeFollowsCredential ==
    /\ modes \subseteq {IF api_key THEN "live" ELSE "sim"}
    /\ InLiveCall => api_key
    /\ InSimCall => ~api_key

\* C21 amended: the dispatch mode is the same for every segment of a run, live for
\* every segment when a credential is configured and the httpx library was imported,
\* simulated for every segment otherwise
C21_ModeFollowsCredentialAndLibrary ==
    /\ modes \subseteq {IF api_key /\ has_httpx THEN "live" ELSE "sim"}
    /\ InLiveCall => (api_key /\ has_httpx)
    /\ InSimCall => ~(api_key /\ has_httpx)
    /\ payload # None => (api_key /\ has_httpx)
    /\ sim_files # {} => ~(api_key /\ has_httpx)

\* two segments were simulated in a run whose credential is configured
C21_Witness ==
    /\ api_key
    /\ ~has_httpx
    /\ modes = {"sim"}
    /\ Len(results) >= 2
    /\ sim_files # {}

\* C22: the live request payload carries the seed field exactly when a seed is set in
\* the configuration, for every integer seed, 0 included, and then with that value
C22_SeedSentIffSet ==
    payload # None =>
        /\ ("seed" \in payload[1].keys) <=> (seed # None)
        /\ seed # None => payload[1].seed = seed

\* the part of C22 the code keeps: an unset seed is omitted and a non-zero seed is sent
C22_NonZeroSeedSent ==
    payload # None =>
        /\ seed = None => "seed" \notin payload[1].keys
        /\ (seed # None /\ seed # <<0>>) =>
              ("seed" \in payload[1].keys /\ payload[1].seed = seed)

\* the six context lines in their fixed order: label and key
FixedOrder ==
    << <<"Style", "style">>, <<"Color Palette", "color_palette">>, <<"Device", "device">>,
       <<"Lighting", "lighting">>, <<"Camera", "camera">>, <<"Quality", "quality">> >>

\* the entries of the global context as a set, whatever the order they were written in
ContextEntries == {global_context.items[j] : j \in 1..Len(global_context.items)}

\* C23: the enhanced prompt is the six context fields in the fixed order style,
\* color_palette, device, lighting, camera, quality, one line each, the value empty
\* for a key the context lacks, followed by the segment's raw prompt; it depends on
\* the entries of the context only, never on the order of its keys
C23_EnhancedPromptFixedOrder ==
    enhanced_prompt # None =>
        /\ Len(enhanced_prompt[1].lines) = 6
        /\ \A i \in 1..6 :
              /\ enhanced_prompt[1].lines[i][1] = FixedOrder[i][1]
              /\ IF \E e \in ContextEntries : e[1] = FixedOrder[i][2]
                 THEN <<FixedOrder[i][2], enhanced_prompt[1].lines[i][2]>> \in ContextEntries
                 ELSE enhanced_prompt[1].lines[i][2] = ""
        /\ enhanced_prompt[1].prompt = segments[idx].prompt.text

\* a prompt was built from a context that lists camera before style and has no
\* color_palette
C23_Witness ==
    /\ enhanced_prompt # None
    /\ global_context = GcSwapped
    /\ enhanced_prompt[1].lines[1] = <<"Style", "neon">>
    /\ enhanced_prompt[1].lines[2] = <<"Color Palette", "">>
    /\ enhanced_prompt[1].lines[5] = <<"Camera", "pan">>

\* the end-to-end scenario: segments S1, S2, S3 of duration 8 each, simulation mode,
\* concatenation requested, no preview, no subset
ThreeSegmentScenario ==
    /\ Len(prompt_chain) = 3
    /\ \A i \in 1..3 :
          /\ prompt_chain[i].segment_id = <<"S", DigitChars[i + 1]>>
          /\ prompt_chain[i].duration_seconds = 8
    /\ ~LiveMode
    /\ concatenate
    /\ ~preview
    /\ segment_ids = None

\* C24: in the end-to-end scenario the run does not fail and, once it has returned,
\* has written 3 simulated metadata records, a manifest listing the 3 output paths in
\* order with transition_duration 0.2 s, and a report with total_segments = 3,
\* successful = 3, failed = 0
C24_EndToEndScenario ==
    (pc # "idle" /\ ThreeSegmentScenario) =>
        /\ pc # "raised"
        /\ pc = "done" =>
              /\ Cardinality(sim_files) = 3
              /\ Len(results) = 3
              /\ \A i \in 1..3 :
                    /\ results[i].segment_id = <<"S", DigitChars[i + 1]>>
                    /\ JsonSibling(results[i].output_path[1]) \in sim_files
              /\ manifest # None
              /\ manifest[1].segments = [i \in 1..3 |-> results[i].output_path[1]]
              /\ manifest[1].transition_duration = 2
              /\ report # None
              /\ report[1].total_segments = 3
              /\ report[1].successful = 3
              /\ report[1].failed = 0

\* the run of the end-to-end scenario has returned its report
C24_Witness ==
    /\ ThreeSegmentScenario
    /\ pc = "done"
    /\ returned = "report"
    /\ manifest # None
    /\ Cardinality(sim_files) = 3

\* C25: two segments of different ids never get the same output file, so no
\* per-segment output path and no simulation metadata path is written twice in a run
C25_DistinctIdsDistinctFiles ==
    /\ \A i, j \in 1..Len(segments) :
          segments[i].id # segments[j].id =>
              /\ output_filename(segments[i]) # output_filename(segments[j])
              /\ MetadataPath(segments[i]) # MetadataPath(segments[j])
    /\ \A i, j \in 1..Len(results) :
          (results[i].segment_id # results[j].segment_id
             /\ results[i].success /\ results[j].success) =>
              results[i].output_path # results[j].output_path

\* the steps of control a run may take, as pairs of positions: idle, loaded and
\* filtered (Idle, Loaded), the preview return, the generation loop (Generating),
\* the concatenation step into "report" (ConcatenatingOptional), the report step
\* into "close" (Reported), the release into "done" (Done); "raised" ends a run
RunOrder ==
    { <<"idle", "loaded">>, <<"idle", "raised">>, <<"loaded", "filtered">>,
      <<"filtered", "loop">>, <<"filtered", "done">>, <<"filtered", "raised">>,
      <<"loop", "api">>, <<"loop", "sim">>, <<"loop", "raised">>,
      <<"api", "retry_sleep">>, <<"retry_sleep", "api">>, <<"api", "collect">>,
      <<"sim", "collect">>, <<"collect", "loop">>,
      <<"loop", "report">>, <<"report", "close">>, <<"close", "done">> }

\* C26: every step of a run follows the order Idle, Loaded, Previewing or Generating,
\* ConcatenatingOptional, Reported, Done: a generation starts only after the load and
\* the timeline, the planner runs only when every segment's result is collected, the
\* report is written only after the concatenation step was performed or skipped, and
\* the client is released only after the report was written
C26_StateOrder ==
    [][ /\ <<pc, pc'>> \in RunOrder
        /\ in_flight' > in_flight => (LoadSucceeded /\ timeline_written /\ pc = "loop")
        /\ pc' = "report" =>
              (pc = "loop" /\ Len(results) = Len(segments) /\ in_flight = 0)
        /\ manifest' # manifest =>
              (pc' = "report" /\ Len(results) = Len(segments) /\ report = None)
        /\ report' # report => (pc = "report" /\ client # "closed")
        /\ client' # client => (pc = "close" /\ report # None /\ client' = "closed")
      ]_vars

\* a run has gone through every state: it generated, concatenated, reported and
\* released an open client
C26_Witness ==
    /\ pc = "done"
    /\ returned = "report"
    /\ Len(results) >= 2
    /\ manifest # None
    /\ report # None
    /\ client = "closed"

\* C27: every run that has ended ended in one of two outcomes, the return of a report
\* or of the preview status, or a fatal loader error; the retry loop of a segment
\* makes at most max_retries attempts and the segment loop passes the list once
C27_TwoOutcomes ==
    /\ RunEnded =>
          \/ pc = "done" /\ returned \in {"report", "preview"}
          \/ pc = "raised" /\ raised_in = "loader"
    /\ requests <= max_retries
    /\ idx <= Len(segments) + 1
    /\ Len(results) <= Len(segments)

\* the part of C27 the code keeps: the loops are bounded
C27_LoopsBounded ==
    /\ requests <= max_retries
    /\ sleeps <= requests
    /\ attempt <= max_retries
    /\ idx <= Len(segments) + 1
    /\ Len(results) <= Len(segments)

\* the part of C27 the code keeps: under SpecFair every run ends
C27_RunTerminates == <>RunEnded

\* C28: in the filter graph for N >= 2 inputs boundary 0 consumes input streams 0 and
\* 1, each boundary i > 0 consumes the label produced by boundary i-1 and input
\* stream i+1, the produced labels are pairwise distinct, and the label mapped to the
\* output is the one produced by the last boundary
C28_FilterGraphChained ==
    (ffmpeg_cmd # None /\ NInputs >= 2) =>
        /\ Len(Parts) = NInputs - 1
        /\ Parts[1].in1 = <<"0", ":", "v">>
        /\ Parts[1].in2 = <<"1", ":", "v">>
        /\ \A i \in 1..(NInputs - 2) :
              /\ Parts[i + 1].in1 = Parts[i].out
              /\ Parts[i + 1].in2 = <<DigitChars[i + 2], ":", "v">>
        /\ \A i, j \in 1..Len(Parts) : i # j => Parts[i].out # Parts[j].out
        /\ ffmpeg_cmd[1].final_label = Parts[NInputs - 1].out

\* a graph of four boundaries was written: the last consumes the third's label and
\* input stream 4
C28_Witness ==
    /\ ffmpeg_cmd # None
    /\ NInputs = 5
    /\ Parts[4].in1 = Parts[3].out
    /\ Parts[4].in2 = <<"4", ":", "v">>
    /\ ffmpeg_cmd[1].final_label = Parts[4].out

\* C29: the crossfade offsets are those of the configured nominal duration D and the
\* transition duration T, boundary i at (i+1)*(D - T), whatever the segments'
\* own duration_seconds
C29_OffsetsFollowConfiguredDuration ==
    (ffmpeg_cmd # None /\ NInputs >= 2) =>
        \A i \in 0..(NInputs - 2) :
            Parts[i + 1].offset =
                (i + 1) * ((config_segment_duration * 10) - transition_duration)

\* the part of C29 the code keeps: the offsets do not depend on the segments' own
\* duration_seconds; they are those of a nominal duration of 8
C29_OffsetsIgnoreSegmentDurations ==
    (ffmpeg_cmd # None /\ NInputs >= 2) =>
        \A i \in 0..(NInputs - 2) : Parts[i + 1].offset = (i + 1) * 78

\* the result of a successful generation of seg, in whichever mode
ExpectedSuccess(seg) ==
    [segment_id |-> seg.id, success |-> TRUE,
     output_path |-> <<(<<"output", "/">> \o output_filename(seg))>>,
     error_message |-> <<>>,
     metadata_keys |-> {"prompt_hash", "enhanced_prompt_length", "motion_keywords"}]

\* C30: a successful generation gives the same result in live and in simulated
\* dispatch: the segment's id, success, the .mp4 output path and the same metadata
\* keys; so the collected paths and the report are the same function of the results
\* in either mode
C30_ResultsDispatchAgnostic ==
    /\ \A i \in 1..Len(results) :
          results[i].success => results[i] = ExpectedSuccess(segments[i])
    /\ (Returned /\ result[1].success) => result[1] = ExpectedSuccess(segments[idx])
    /\ successful_paths = OutputsOfSucceeded(Len(results))
    /\ report # None =>
          /\ report[1].total_segments = Len(results)
          /\ report[1].successful = NSucc
          /\ report[1].failed = Len(results) - NSucc

\* a live generation has succeeded on its second request or later, after a
\* successful first segment
C30_Witness ==
    /\ LiveMode
    /\ Returned
    /\ result[1].success
    /\ requests >= 2
    /\ Len(results) >= 1
    /\ results[1].success

\* ---- C31 ----
\* a run that went through timeline, generation, concatenation planning and report
C31_Witness ==
    /\ pc = "done" /\ returned = "report"
    /\ timeline_written /\ manifest # None /\ report # None
    /\ global_context = GcDict
    /\ Len(segments) >= 2 /\ Len(results) = Len(segments)

\* C31: once load_all has returned (every step after "idle"), no step changes the
\* Global Context map or the loaded prompt entries, and no step changes a Segment:
\* the segment list is only ever narrowed by the id filter, which keeps each
\* remaining Segment as get_segments built it, and is left alone by every step
\* after the filter (timeline, generate_segment in either mode, concatenation
\* planning, report).
C31_ContextAndSegmentsFrozen ==
    [][pc # "idle" =>
          /\ global_context' = global_context
          /\ prompt_chain' = prompt_chain
          /\ \A i \in 1..Len(segments') : \E j \in 1..Len(segments) : segments'[i] = segments[j]
          /\ (pc # "loaded" => segments' = segments)]_vars

\* ---- C32 ----
\* C32: in live mode, whatever max_retries is (0 included), a success result returned by
\* generate_segment was preceded by at least one request, and the last request was
\* answered successfully (every answer of the plan before it was a failure)
C32_SuccessNeedsSuccessfulResponse ==
    (Returned /\ LiveMode /\ result[1].success) =>
        /\ requests >= 1
        /\ requests = Len(plan) + 1

\* the part of C32 the code keeps: with max_retries >= 1 a live success result follows
\* a successful answer to the last of at least one request
C32_SuccessNeedsResponseWhenRetrying ==
    (Returned /\ LiveMode /\ max_retries >= 1 /\ result[1].success) =>
        /\ requests >= 1
        /\ requests = Len(plan) + 1

\* ---- C33 ----
\* the ids of the segments generated so far: those with a collected result and the
\* one generate_segment is working on
GeneratedIds ==
    {results[i].segment_id : i \in 1..Len(results)}
        \cup (IF InLiveCall \/ InSimCall \/ Returned THEN {segments[idx].id} ELSE {})

\* C33 as stated: whenever an id subset is supplied, the empty one included, every
\* generated segment has an id of that subset (so an empty subset generates nothing)
C33_GeneratedWithinSuppliedSubset ==
    segment_ids # None => GeneratedIds \subseteq segment_ids[1]

\* C33 amended: whenever a non-empty id subset is supplied, every generated segment
\* has an id of that subset; an empty supplied subset is treated as no subset, and
\* when the generation loop has ended every loaded segment has been generated
C33_GeneratedWithinNonEmptySubset ==
    /\ (segment_ids # None /\ segment_ids[1] # {}) => GeneratedIds \subseteq segment_ids[1]
    /\ (segment_ids = Some({}) /\ pc = "report") =>
           /\ Len(results) = Len(get_segments(prompt_chain))
           /\ \A i \in 1..Len(results) :
                 results[i].segment_id = get_segments(prompt_chain)[i].id

\* a non-empty subset was supplied that names one of two loaded segments, and the
\* generation loop ended with that segment alone generated
C33_Witness ==
    /\ pc = "report"
    /\ segment_ids # None /\ Cardinality(segment_ids[1]) = 1
    /\ Len(get_segments(prompt_chain)) = 2
    /\ Len(results) = 1
    /\ results[1].segment_id \in segment_ids[1]

\* an empty subset was supplied and the generation loop ended with results
C33_EmptySubsetWitness ==
    /\ pc = "report"
    /\ segment_ids = Some({})
    /\ Len(results) >= 2

\* ---- C34 ----
\* C34: over any sequence of run() calls on one orchestrator in live mode, a request
\* is only ever issued on a client that has not been closed
C34_NoRequestOnClosedClient ==
    [][requests' > requests => client # "closed"]_vars

\* the part of C34 the code keeps: the client is closed only by a run that went as
\* far as writing its report; a preview run or a run that raised leaves it open
C34_ClosedOnlyAfterReport == client = "closed" => report # None

====
